---- MODULE Spec2Model ----
(***************************************************************************)
(* WHOIS server (lanycrost/whois-server).                                  *)
(*                                                                         *)
(* Two generations of the server are in the repository and both are        *)
(* modelled; the variable `variant` says which one is running:             *)
(*   "flat"  : src/main.go          (registry lookup, flat TLDS list)      *)
(*   "categ" : src/unnamed/part_000 (regex + hard-coded category scheme,   *)
(*                                   static success data)                  *)
(*                                                                         *)
(* Strings are sequences of one-character strings, so that TrimSpace,      *)
(* Index, ToUpper, ToLower, Split and the regular expression are computed  *)
(* the way the Go code computes them.                                      *)
(***************************************************************************)
EXTENDS Integers, Sequences, FiniteSets, TLC

(***************************************************************************)
(* Bounds of the model.                                                    *)
(***************************************************************************)
\* connections that arrive over the life of the process
MaxConns == 2

(***************************************************************************)
(* Characters and the string functions of package strings.                 *)
(***************************************************************************)
LowerLetters ==
  <<"a","b","c","d","e","f","g","h","i","j","k","l","m",
    "n","o","p","q","r","s","t","u","v","w","x","y","z">>

UpperLetters ==
  <<"A","B","C","D","E","F","G","H","I","J","K","L","M",
    "N","O","P","Q","R","S","T","U","V","W","X","Y","Z">>

Digits == {"0","1","2","3","4","5","6","7","8","9"}

\* unicode.IsSpace restricted to ASCII
WhiteSpace == {" ", "\t", "\n", "\r"}

Range(s) == {s[i] : i \in 1..Len(s)}

IsLower(c) == c \in Range(LowerLetters)
IsUpper(c) == c \in Range(UpperLetters)

LetterIndex(alphabet, c) == CHOOSE i \in 1..Len(alphabet) : alphabet[i] = c

ToUpperChar(c) == IF IsLower(c) THEN UpperLetters[LetterIndex(LowerLetters, c)] ELSE c
ToLowerChar(c) == IF IsUpper(c) THEN LowerLetters[LetterIndex(UpperLetters, c)] ELSE c

\* strings.ToUpper / strings.ToLower
ToUpper(s) == [i \in 1..Len(s) |-> ToUpperChar(s[i])]
ToLower(s) == [i \in 1..Len(s) |-> ToLowerChar(s[i])]

\* strings.TrimSpace: drop leading and trailing white space
RECURSIVE TrimLeft(_)
TrimLeft(s) ==
  IF s # <<>> /\ Head(s) \in WhiteSpace THEN TrimLeft(Tail(s)) ELSE s

RECURSIVE TrimRight(_)
TrimRight(s) ==
  IF s # <<>> /\ s[Len(s)] \in WhiteSpace
    THEN TrimRight(SubSeq(s, 1, Len(s) - 1))
    ELSE s

TrimSpace(s) == TrimRight(TrimLeft(s))

\* strings.Index(s, "."), 1-based; 0 stands for Go's -1 (no occurrence)
IndexDot(s) ==
  IF \E i \in 1..Len(s) : s[i] = "."
    THEN CHOOSE i \in 1..Len(s) : s[i] = "." /\ \A j \in 1..(i - 1) : s[j] # "."
    ELSE 0

\* strings.Split(s, "."): the labels between the dots, empty ones included
RECURSIVE Split(_)
Split(s) ==
  IF IndexDot(s) = 0
    THEN <<s>>
    ELSE <<SubSeq(s, 1, IndexDot(s) - 1)>> \o Split(SubSeq(s, IndexDot(s) + 1, Len(s)))

(***************************************************************************)
(* The label grammar ^([a-z0-9]+(-[a-z0-9]+)*\.)+[a-z]{2,}$                *)
(***************************************************************************)
IsAlnum(c) == IsLower(c) \/ c \in Digits

\* [a-z0-9]+(-[a-z0-9]+)*
MatchLabel(l) ==
  /\ l # <<>>
  /\ \A i \in 1..Len(l) : IsAlnum(l[i]) \/ l[i] = "-"
  /\ IsAlnum(l[1])
  /\ IsAlnum(l[Len(l)])
  /\ \A i \in 1..(Len(l) - 1) : ~(l[i] = "-" /\ l[i + 1] = "-")

\* [a-z]{2,}
MatchFinal(l) ==
  /\ Len(l) >= 2
  /\ \A i \in 1..Len(l) : IsLower(l[i])

MatchDomain(domain) ==
  LET parts == Split(domain) IN
    /\ Len(parts) >= 2
    /\ \A i \in 1..(Len(parts) - 1) : MatchLabel(parts[i])
    /\ MatchFinal(parts[Len(parts)])

(***************************************************************************)
(* Configuration (environment, read once at start).                        *)
(***************************************************************************)
Variants == {"flat", "categ"}

\* TLDS = strings.Split(os.Getenv("TLDS"), ","), here TLDS=.ge,.gov.ge
TLDS == << <<".","g","e">>, <<".","g","o","v",".","g","e">> >>

TLDNAME == <<"G","E">>

TLDWHOISADDR == <<"w","h","o","i","s",".","g","e">>

\* the literal the request is compared with
helpLiteral == <<"h","e","l","p">>

\* the second-level categories and the root the older server is built with
Categories ==
  { <<"c","o","m">>, <<"e","d","u">>, <<"g","o","v">>, <<"o","r","g">>,
    <<"m","i","l">>, <<"n","e","t">>, <<"p","v","t">> }

RootTLD == <<"g","e">>

\* len(domainParts[0]) < 2
MinLabelLen == 2

(***************************************************************************)
(* Domain validation.                                                      *)
(***************************************************************************)
\* strings.LastIndex(s, "."), 1-based; 0 stands for Go's -1
LastIndexDot(s) ==
  IF \E i \in 1..Len(s) : s[i] = "."
    THEN CHOOSE i \in 1..Len(s) : s[i] = "." /\ \A j \in (i + 1)..Len(s) : s[j] # "."
    ELSE 0

\* a checkDomain that takes the suffix from the last dot on
checkDomainFlatLastLabel(domain) ==
  IF LastIndexDot(domain) = 0
    THEN "panic"
    ELSE LET tldPart == SubSeq(domain, LastIndexDot(domain), Len(domain)) IN
           IF \E i \in 1..Len(TLDS) : ToUpper(tldPart) = ToUpper(TLDS[i])
             THEN "true"
             ELSE "false"

\* a checkDomain that compares the suffix with the list as written
checkDomainFlatCaseSensitive(domain) ==
  IF IndexDot(domain) = 0
    THEN "panic"
    ELSE LET tldPart == SubSeq(domain, IndexDot(domain), Len(domain)) IN
           IF \E i \in 1..Len(TLDS) : tldPart = TLDS[i]
             THEN "true"
             ELSE "false"

\* src/main.go: "panic" is the slice-bounds run-time panic of domain[-1:]
checkDomainFlat(domain) ==
  IF IndexDot(domain) = 0
    THEN "panic"
    ELSE LET tldPart == SubSeq(domain, IndexDot(domain), Len(domain)) IN
           IF \E i \in 1..Len(TLDS) : ToUpper(tldPart) = ToUpper(TLDS[i])
             THEN "true"
             ELSE "false"

\* an ownership condition that takes any middle label under the root
BelongsToUsAnyCategory(domainParts) ==
  \/ Len(domainParts) = 2 /\ domainParts[2] = RootTLD
  \/ Len(domainParts) = 3 /\ domainParts[3] = RootTLD

\* src/unnamed/part_000: the ownership condition of checkDomain
BelongsToUs(domainParts) ==
  \/ Len(domainParts) = 2 /\ domainParts[2] = RootTLD
  \/ /\ Len(domainParts) = 3
     /\ domainParts[2] \in Categories
     /\ domainParts[3] = RootTLD

\* a checkDomain that looks at the length of the leftmost label before ownership
checkDomainTemplateLengthFirst(req) ==
  LET domain == ToLower(req) IN
    IF ~MatchDomain(domain)
      THEN "syntaxErrTemplate"
      ELSE LET domainParts == Split(domain) IN
             IF Len(domainParts[1]) < MinLabelLen
               THEN "lenErrTemplate"
               ELSE IF BelongsToUs(domainParts)
                 THEN "none"
                 ELSE IF Len(domainParts) = 2 THEN "topErrTemplate" ELSE "secondErrTemplate"

\* src/unnamed/part_000: the template checkDomain writes ("none": it writes nothing)
checkDomainTemplate(req) ==
  LET domain == ToLower(req) IN
    IF ~MatchDomain(domain)
      THEN "syntaxErrTemplate"
      ELSE LET domainParts == Split(domain) IN
             IF BelongsToUs(domainParts)
               THEN IF Len(domainParts[1]) < MinLabelLen THEN "lenErrTemplate" ELSE "none"
               ELSE IF Len(domainParts) = 2 THEN "topErrTemplate" ELSE "secondErrTemplate"

\* src/unnamed/part_000: the value checkDomain returns (both return statements)
checkDomainReturn(req) ==
  LET domain == ToLower(req) IN
    IF MatchDomain(domain) /\ BelongsToUs(Split(domain))
      THEN TRUE     \* line 210
      ELSE TRUE     \* line 223

(***************************************************************************)
(* The registry (PostgreSQL behind gorm): table "data" keyed by column     *)
(* dns, table "nameserver" with one row per name server.  The value of a   *)
(* column f of the row keyed d is written <<f>> \o d.                       *)
(***************************************************************************)
abGe == <<"a","b",".","g","e">>
efGe == <<"e","f",".","g","e">>

\* the keys of the rows of table "data"
DataTable == {abGe, efGe}

\* the rows of table "nameserver", in stored order
NameserverTable ==
  << [ID |-> 1, DNSName |-> abGe, Nameserver |-> <<"ns1">>],
     [ID |-> 2, DNSName |-> efGe, Nameserver |-> <<"ns2">>],
     [ID |-> 3, DNSName |-> abGe, Nameserver |-> <<"ns3">>] >>

\* var dns = DNS{}
ZeroDNS == [DNS |-> <<>>, Nameservers |-> <<>>]

\* DB.Where("dns = ?", req).Find(&dns): ok = FALSE is a query that fails (the
\* store is unavailable), which leaves dns as it was, like one that finds no row
FindDNS(dns, req, ok) ==
  IF ok /\ req \in DataTable THEN [dns EXCEPT !.DNS = req] ELSE dns

\* DB.Find(&dns.Nameservers): no condition, every row of the table
FindNameservers(dns, ok) ==
  IF ok
    THEN [dns EXCEPT !.Nameservers =
            [i \in 1..Len(NameserverTable) |-> NameserverTable[i].Nameserver]]
    ELSE dns

(***************************************************************************)
(* Templates.  A template is a sequence of nodes, each a literal text      *)
(* followed by a field; a rendered block is the sequence of the chunks     *)
(* [label, value] the nodes produce, in order.                             *)
(***************************************************************************)
Node(l, f) == [label |-> l, field |-> f]

\* the banner the success and no-match templates start with
bannerNodes ==
  << Node("%", "TLDNAME"),
     Node(" TLD whois server % Please see 'whois -h ", "TLDWHOISADDR") >>

\* a Success template with the creation date before the updated date
successContentSwapped ==
  bannerNodes \o
  << Node(" help' for usage. % Domain Name: ", "DNS"),
     Node("Creation Date: ", "CreationDate"),
     Node("Updated Date: ", "UpdatedDate"),
     Node("Expiration Date: ", "ExpirationDate"),
     Node("Registrar: ", "RegistrarName"),
     Node("Registrar URL: ", "RegistrarUrl"),
     Node("Registrar Abuse Contact Email: ", "RegistrarContactEmail"),
     Node("Registrar Abuse Contact Phone: ", "RegistrarContactPhone"),
     Node("Registrant Name: ", "RegistrantName"),
     Node("Registrant Organization: ", "RegistrantOrganization"),
     Node("Registrant Street: ", "RegistrantStreet"),
     Node("Registrant City: ", "RegistrantCity"),
     Node("Registrant State/Province: ", "RegistrantProvince"),
     Node("Registrant Postal Code: ", "RegistrantZipCode"),
     Node("Registrant Country: ", "RegistrantCountry"),
     Node("Registrant Phone: ", "RegistrantPhone"),
     Node("Registrant Phone Ext: ", "RegistrantPhoneExt"),
     Node("Registrant Fax: ", "RegistrantFax"),
     Node("Registrant Fax Ext: ", "RegistrantFaxExt"),
     Node("Registrant Email: ", "RegistrantEmail") >>

successContent ==
  bannerNodes \o
  << Node(" help' for usage. % Domain Name: ", "DNS"),
     Node("Updated Date: ", "UpdatedDate"),
     Node("Creation Date: ", "CreationDate"),
     Node("Expiration Date: ", "ExpirationDate"),
     Node("Registrar: ", "RegistrarName"),
     Node("Registrar URL: ", "RegistrarUrl"),
     Node("Registrar Abuse Contact Email: ", "RegistrarContactEmail"),
     Node("Registrar Abuse Contact Phone: ", "RegistrarContactPhone"),
     Node("Registrant Name: ", "RegistrantName"),
     Node("Registrant Organization: ", "RegistrantOrganization"),
     Node("Registrant Street: ", "RegistrantStreet"),
     Node("Registrant City: ", "RegistrantCity"),
     Node("Registrant State/Province: ", "RegistrantProvince"),
     Node("Registrant Postal Code: ", "RegistrantZipCode"),
     Node("Registrant Country: ", "RegistrantCountry"),
     Node("Registrant Phone: ", "RegistrantPhone"),
     Node("Registrant Phone Ext: ", "RegistrantPhoneExt"),
     Node("Registrant Fax: ", "RegistrantFax"),
     Node("Registrant Fax Ext: ", "RegistrantFaxExt"),
     Node("Registrant Email: ", "RegistrantEmail") >>

\* the nodes of successMoreContent before {{range}}
successMoreContact ==
  << Node("Admin Name: ", "AdminName"),
     Node("Admin Organization: ", "AdminOrganization"),
     Node("Admin Street: ", "AdminStreet"),
     Node("Admin City: ", "AdminCity"),
     Node("Admin State/Province: ", "AdminProvince"),
     Node("Admin Postal Code: ", "AdminZipCode"),
     Node("Admin Country: ", "AdminCountry"),
     Node("Admin Phone: ", "AdminPhone"),
     Node("Admin Phone Ext: ", "AdminPhoneExt"),
     Node("Admin Fax: ", "AdminFax"),
     Node("Admin Fax Ext: ", "AdminFaxExt"),
     Node("Admin Email: ", "AdminEmail"),
     Node("Tech Name: ", "TechName"),
     Node("Tech Organization: ", "TechOrganization"),
     Node("Tech Street: ", "TechStreet"),
     Node("Tech City: ", "TechCity"),
     Node("Tech State/Province: ", "TechProvince"),
     Node("Tech Postal Code: ", "TechZipCode"),
     Node("Tech Country: ", "TechCountry"),
     Node("Tech Phone: ", "TechPhone"),
     Node("Tech Phone Ext: ", "TechPhoneExt"),
     Node("Tech Fax: ", "TechFax"),
     Node("Tech Fax Ext: ", "TechFaxExt"),
     Node("Tech Email: ", "TechEmail") >>

\* the node after {{end}}
successMoreTail == << Node("DNSSEC: ", "DnsSecStatus") >>

noMatchContent ==
  bannerNodes \o
  << Node(" help' for usage. % No match for \"", "DNS"),
     Node("\".", "") >>

\* the value of field f of the data a template is executed with
FieldValue(dns, f) ==
  CASE f = "DNS"          -> dns.DNS
    [] f = ""             -> <<>>
    [] f = "TLDNAME"      -> TLDNAME
    [] f = "TLDWHOISADDR" -> TLDWHOISADDR
    [] OTHER              -> <<f>> \o dns.DNS

Chunk(l, v) == [label |-> l, value |-> v]

RenderNodes(nodes, dns) ==
  [i \in 1..Len(nodes) |-> Chunk(nodes[i].label, FieldValue(dns, nodes[i].field))]

\* {{range $dns := .DNS.Nameservers}}Name Server: {{ $dns.Nameserver }}{{end}}
RenderRange(dns) ==
  [i \in 1..Len(dns.Nameservers) |-> Chunk("Name Server: ", dns.Nameservers[i])]

\* a block that was rendered once, at package initialisation
StaticBlock(name) == << Chunk(name, <<>>) >>

\* the data the older server's handleSuccess renders: SuccessData{DomainName: req, ...}
staticSuccess(req) ==
  << Chunk("DomainName", req),
     Chunk("Registrar", <<"RegNest.com (RegNest LLC)">>),
     Chunk("Status", <<"active, registrar locked">>),
     Chunk("Registrant", <<"John Doe">>) >>

\* SuccessMoreData{...}
staticSuccessMore ==
  << Chunk("Administrative", <<"John Doe">>),
     Chunk("Technical", <<"John Doe">>),
     Chunk("DNS", <<"coco.ns.cloudflare.com", "todd.ns.cloudflare.com">>),
     Chunk("Registered", <<"2004-12-28">>),
     Chunk("Modified", <<"2017-06-14">>),
     Chunk("Expires", <<"2022-12-28">>) >>

\* the chunks ExecuteTemplate(&tpl, name, data) appends to the buffer
Render(v, name, r, d) ==
  CASE name = "Success" /\ v = "flat" -> RenderNodes(successContent, d)
    [] name = "Success More" /\ v = "flat" ->
         RenderNodes(successMoreContact, d) \o RenderRange(d)
           \o RenderNodes(successMoreTail, d)
    [] name = "No Match" -> RenderNodes(noMatchContent, [ZeroDNS EXCEPT !.DNS = r])
    [] name = "Success" /\ v = "categ" -> staticSuccess(r)
    [] name = "Success More" /\ v = "categ" -> staticSuccessMore
    [] OTHER -> StaticBlock(name)

\* Bytes are kept as the sequence of the template executions that produced
\* them: Item(name, r, d) stands for the chunks Render(v, name, r, d)
Item(name, r, d) == [name |-> name, req |-> r, dns |-> d]

RECURSIVE Bytes(_, _)
Bytes(v, items) ==
  IF items = <<>>
    THEN <<>>
    ELSE Render(v, Head(items).name, Head(items).req, Head(items).dns)
           \o Bytes(v, Tail(items))

(***************************************************************************)
(* What clients send: the bytes one Read returns.                          *)
(***************************************************************************)
Inputs ==
  { <<"h","e","l","p","\r","\n">>,        \* help
    <<"H","e","l","p">>,                  \* near miss of the command, no dot
    <<" ","\n">>,                         \* white space only
    <<"a","b",".","g","e">>,              \* served, registered
    <<"c","d",".","g","e","\n">>,         \* served, not registered
    <<"a","b",".","u","s">> }             \* not served

(***************************************************************************)
(* State.                                                                  *)
(***************************************************************************)
VARIABLES
  variant,    \* which generation of the server runs
  proc,       \* "up", "fatal" (log.Fatal) or "panic" (run-time panic)
  mainpc,     \* where main() is: "resolve", "listen", "accept"
  listener,   \* "none", "bound", or "nil" (ListenTCP failed, error only logged)
  acceptErr,  \* main's err: whether the last Accept returned an error
  hpc,        \* per connection, where its handleClient goroutine is
  req,        \* per connection, the trimmed request
  dns,        \* per connection, handleSuccess's local dns
  jobs,       \* per connection, the templates handleSuccess has still to send
  tpl,        \* the package-level bytes.Buffer
  log         \* per connection, what happened on it, in order

vars == <<variant, proc, mainpc, listener, acceptErr, hpc, req, dns, jobs, tpl, log>>

Conns == 1..MaxConns

\* the connections whose handleClient goroutine has started and not returned
Running == {c \in Conns : hpc[c] \notin {"idle", "done"}}

\* The model schedules at most two handleClient goroutines at a time; a third
\* connection is accepted once one of them has returned.
TwoAtATime == \A a \in Running, b \in Running, c \in Running : a = b \/ b = c \/ a = c

\* a connection is still to arrive
Pending == \E c \in Conns : hpc[c] = "idle"

\* an entry of a connection's log: data is a sequence of items
Event(op, data) == [op |-> op, data |-> data]

\* conn.Close() was called on c
Closed(c) == \E i \in 1..Len(log[c]) : log[c][i].op = "close"

\* conn.Write(b): nothing is sent on a connection that was closed
WriteEvent(isClosed, b) ==
  IF isClosed THEN Event("write-failed", <<>>) ELSE Event("write", b)

\* a block that was rendered once, at package initialisation
Static(name) == <<Item(name, <<>>, ZeroDNS)>>

Init ==
  /\ variant \in Variants
  /\ proc = "up"
  /\ mainpc = "resolve"
  /\ listener = "none"
  /\ acceptErr = FALSE
  /\ hpc = [c \in Conns |-> "idle"]
  /\ req = [c \in Conns |-> <<>>]
  /\ dns = [c \in Conns |-> ZeroDNS]
  /\ jobs = [c \in Conns |-> <<>>]
  /\ tpl = <<>>          \* the last InitTemplate of package initialisation reset it
  /\ log = [c \in Conns |-> <<>>]

(***************************************************************************)
(* main()                                                                  *)
(***************************************************************************)
\* checkError(err): log.Fatalf in the older server, LOGGER.Err in src/main.go
checkErrorFatal(v, failed) == failed /\ v = "categ"

\* tcpAddr, err := net.ResolveTCPAddr("tcp4", port); checkError(err)
ResolveTCPAddr ==
  /\ proc = "up" /\ mainpc = "resolve"
  /\ \E failed \in BOOLEAN :
       IF checkErrorFatal(variant, failed)
         THEN proc' = "fatal" /\ UNCHANGED mainpc
         ELSE mainpc' = "listen" /\ UNCHANGED proc
  /\ UNCHANGED <<variant, listener, acceptErr, hpc, req, dns, jobs, tpl, log>>

\* listener, err := net.ListenTCP("tcp", tcpAddr); checkError(err)
ListenTCP ==
  /\ proc = "up" /\ mainpc = "listen"
  /\ \E failed \in BOOLEAN :
       IF checkErrorFatal(variant, failed)
         THEN proc' = "fatal" /\ UNCHANGED <<mainpc, listener>>
         ELSE /\ mainpc' = "accept"
              /\ listener' = IF failed THEN "nil" ELSE "bound"
              /\ UNCHANGED proc
  /\ UNCHANGED <<variant, acceptErr, hpc, req, dns, jobs, tpl, log>>

\* conn, err := listener.Accept() with err == nil; go handleClient(conn)
Accept ==
  /\ proc = "up" /\ mainpc = "accept" /\ listener = "bound"
  /\ \E c \in Conns :
       /\ hpc[c] = "idle"
       /\ \A d \in Conns : d < c => hpc[d] # "idle"
       /\ hpc' = [hpc EXCEPT ![c] = "read"]
  /\ TwoAtATime'
  /\ acceptErr' = FALSE
  /\ UNCHANGED <<variant, proc, mainpc, listener, req, dns, jobs, tpl, log>>

\* an accept loop that hands the error to a fatal checkError
AcceptErrorFatal ==
  /\ proc = "up" /\ mainpc = "accept"
  /\ listener = "nil" \/ Pending
  /\ acceptErr' = TRUE
  /\ proc' = "fatal"
  /\ UNCHANGED <<variant, mainpc, listener, hpc, req, dns, jobs, tpl, log>>

\* conn, err := listener.Accept() with err != nil; continue
\* (a nil listener fails every Accept; a bound one fails now and then while
\* connections are arriving)
AcceptError ==
  /\ proc = "up" /\ mainpc = "accept"
  /\ listener = "nil" \/ Pending
  /\ acceptErr' = TRUE
  /\ UNCHANGED <<variant, proc, mainpc, listener, hpc, req, dns, jobs, tpl, log>>

(***************************************************************************)
(* handleClient(conn), one goroutine per accepted connection.  A step of   *)
(* the model runs the goroutine from one access of the shared buffer (or   *)
(* from the blocking Read) up to the next.                                 *)
(***************************************************************************)
\* conn.Close() is among the events evs
HasClose(evs) == \E i \in 1..Len(evs) : evs[i].op = "close"

\* a handler that leaves its loop on a read error only
readBreaksOnErrorOnly(outcome) == outcome = "err"

\* if err != nil { break } ; if readLen == 0 { break }
readBreaks(outcome) == outcome = "err" \/ outcome = "zero"

\* a comparison that ignores letter case
isHelpAnyCase(r) == ToLower(r) = helpLiteral

\* if req == "help"
isHelp(r) == r = helpLiteral

\* a help branch that leaves the connection open
helpEventsNoClose(isClosed) == << WriteEvent(isClosed, Static("helpTemplate")) >>

\* conn.Write([]byte(helpTemplate)); conn.Close()
helpEvents(isClosed) ==
  << WriteEvent(isClosed, Static("helpTemplate")), Event("close", <<>>) >>

\* the call of checkDomain, with what it decided
CallCheck(res, r) == Event("checkDomain", <<Item(res, r, ZeroDNS)>>)

\* src/unnamed/part_000 checkDomain: what it does on the connection
checkDomainEvents(isClosed, r) ==
  <<CallCheck(checkDomainTemplate(r), r)>> \o
    (IF checkDomainTemplate(r) = "none"
       THEN <<>>
       ELSE << WriteEvent(isClosed, Static(checkDomainTemplate(r))), Event("close", <<>>) >>)

\* the templates handleSuccess of the older server sends
staticJobs == <<"Success", "Success More">>

\* if dns.DNS != "" { ...Success, Success More... } else { ...No Match... }
jobsFor(d) == IF d.DNS # <<>> THEN <<"Success", "Success More">> ELSE <<"No Match">>

\* a handleSuccess that loads the name servers whatever the lookup found
lookupEventsAlways(r, ok) ==
  << Event(IF ok THEN "db" ELSE "db-failed", <<Item("data", r, ZeroDNS)>>),
     Event("db", <<Item("nameserver", <<>>, ZeroDNS)>>) >>

\* the registry calls handleSuccess of src/main.go makes; ok: whether the store
\* is available while handleSuccess runs
lookupEvents(r, ok) ==
  <<Event(IF ok THEN "db" ELSE "db-failed", <<Item("data", r, ZeroDNS)>>)>> \o
    (IF FindDNS(ZeroDNS, r, ok).DNS # <<>>
       THEN <<Event("db", <<Item("nameserver", <<>>, ZeroDNS)>>)>>
       ELSE <<>>)

\* DB.Where("dns = ?", req).Find(&dns); if dns.DNS != "" { DB.Find(&dns.Nameservers) }
lookupResult(r, ok) ==
  IF FindDNS(ZeroDNS, r, ok).DNS # <<>>
    THEN FindNameservers(FindDNS(ZeroDNS, r, ok), ok)
    ELSE FindDNS(ZeroDNS, r, ok)

\* The else branch of the loop body for a request r that is not "help", up to
\* the first tpl.Reset() of handleSuccess: the events on the connection, whether
\* handleSuccess runs, the dns it found, and whether the process panics.
dispatch(v, isClosed, r, ok) ==
  IF v = "flat"
    THEN CASE checkDomainFlat(r) = "panic" ->
                [evs |-> <<CallCheck("panic", r)>>, success |-> FALSE,
                 dns |-> ZeroDNS, panic |-> TRUE]
           [] checkDomainFlat(r) = "true" ->
                [evs |-> <<CallCheck("true", r), Event("handleSuccess", <<>>)>>
                           \o lookupEvents(r, ok),
                 success |-> TRUE, dns |-> lookupResult(r, ok), panic |-> FALSE]
           [] checkDomainFlat(r) = "false" ->
                [evs |-> <<CallCheck("false", r), Event("close", <<>>)>>,
                 success |-> FALSE, dns |-> ZeroDNS, panic |-> FALSE]
    ELSE IF checkDomainReturn(r)
           THEN [evs |-> checkDomainEvents(isClosed, r) \o <<Event("handleSuccess", <<>>)>>,
                 success |-> TRUE, dns |-> ZeroDNS, panic |-> FALSE]
           ELSE [evs |-> checkDomainEvents(isClosed, r),
                 success |-> FALSE, dns |-> ZeroDNS, panic |-> FALSE]

\* Back at the top of the for loop: conn.Read on a connection this side has
\* closed returns an error at once, so the loop is left and the deferred
\* conn.Close() runs; on an open connection the goroutine blocks in Read.
loopEvents(isClosed) ==
  IF isClosed
    THEN << Event("read-err", <<Item("request", <<>>, ZeroDNS)>>), Event("close", <<>>) >>
    ELSE <<>>

loopPc(isClosed) == IF isClosed THEN "done" ELSE "read"

\* A run-time panic unwinds the goroutine: the deferred conn.Close() runs,
\* then the process exits.
panicEvents == << Event("close", <<>>) >>

\* conn.Read returns on an open connection: an error (deadline, reset, EOF),
\* zero bytes, or the bytes raw, one of the requests clients send
ReadFrom(c, requests) ==
  /\ proc = "up" /\ hpc[c] = "read"
  /\ \E outcome \in {"err", "zero", "data"}, raw \in requests, ok \in BOOLEAN :
       LET bytes == IF outcome = "data" THEN raw ELSE <<>>
           r     == TrimSpace(bytes)
           rd    == Event("read-" \o outcome, <<Item("request", bytes, ZeroDNS)>>)
           d     == dispatch(variant, Closed(c), r, ok)
       IN
         IF readBreaks(outcome)
           THEN /\ hpc' = [hpc EXCEPT ![c] = "done"]
                /\ log' = [log EXCEPT ![c] = @ \o <<rd, Event("close", <<>>)>>]
                /\ UNCHANGED <<req, dns, jobs, proc>>
           ELSE IF isHelp(r)
             THEN /\ hpc' = [hpc EXCEPT ![c] = loopPc(HasClose(helpEvents(Closed(c))))]
                  /\ log' = [log EXCEPT ![c] =
                               @ \o <<rd>> \o helpEvents(Closed(c))
                                 \o loopEvents(HasClose(helpEvents(Closed(c))))]
                  /\ UNCHANGED <<req, dns, jobs, proc>>
             ELSE /\ req' = [req EXCEPT ![c] = r]
                  /\ dns' = [dns EXCEPT ![c] = d.dns]
                  /\ proc' = IF d.panic THEN "panic" ELSE proc
                  /\ jobs' = [jobs EXCEPT ![c] =
                                IF ~d.success THEN <<>>
                                ELSE IF variant = "flat" THEN jobsFor(d.dns) ELSE staticJobs]
                  /\ hpc' = [hpc EXCEPT ![c] =
                               IF d.panic THEN "done"
                               ELSE IF d.success THEN "reset"
                               ELSE loopPc(Closed(c) \/ HasClose(d.evs))]
                  /\ log' = [log EXCEPT ![c] =
                               @ \o <<rd>> \o d.evs \o
                                 (IF d.panic THEN panicEvents
                                  ELSE IF d.success THEN <<>>
                                  ELSE loopEvents(Closed(c) \/ HasClose(d.evs)))]
  /\ UNCHANGED <<variant, mainpc, listener, acceptErr, tpl>>

Read(c) == ReadFrom(c, Inputs)

(***************************************************************************)
(* handleSuccess(req, conn): the three accesses of the shared buffer.      *)
(***************************************************************************)
\* tpl.Reset()
Reset(c) ==
  /\ proc = "up" /\ hpc[c] = "reset"
  /\ tpl' = <<>>
  /\ hpc' = [hpc EXCEPT ![c] = "exec"]
  /\ UNCHANGED <<variant, proc, mainpc, listener, acceptErr, req, dns, jobs, log>>

\* what ExecuteTemplate(&tpl, name, res) leaves in the buffer
executeInto(buf, name, r, d) == buf \o <<Item(name, r, d)>>

\* err := template.ExecuteTemplate(&tpl, name, res); checkError(err) with err == nil
\* (the buffer accesses of one execution are taken as one step)
Exec(c) ==
  /\ proc = "up" /\ hpc[c] = "exec"
  /\ tpl' = executeInto(tpl, Head(jobs[c]), req[c], dns[c])
  /\ hpc' = [hpc EXCEPT ![c] = "write"]
  /\ UNCHANGED <<variant, proc, mainpc, listener, acceptErr, req, dns, jobs, log>>

\* conn.Write([]byte(tpl.String())), and after the last template conn.Close()
writeEvents(isClosed, buf, last) ==
  <<WriteEvent(isClosed, buf)>> \o (IF last THEN <<Event("close", <<>>)>> ELSE <<>>)

Write(c) ==
  /\ proc = "up" /\ hpc[c] = "write"
  /\ LET evs  == writeEvents(Closed(c), tpl, Len(jobs[c]) = 1)
         shut == Closed(c) \/ HasClose(evs)
     IN
       /\ log' = [log EXCEPT ![c] =
                    @ \o evs \o (IF Len(jobs[c]) = 1 THEN loopEvents(shut) ELSE <<>>)]
       /\ hpc' = [hpc EXCEPT ![c] = IF Len(jobs[c]) = 1 THEN loopPc(shut) ELSE "reset"]
  /\ jobs' = [jobs EXCEPT ![c] = Tail(@)]
  /\ UNCHANGED <<variant, proc, mainpc, listener, acceptErr, req, dns, tpl>>

Next ==
  \/ ResolveTCPAddr
  \/ ListenTCP
  \/ Accept
  \/ AcceptError
  \/ \E c \in Conns : Read(c)
  \/ \E c \in Conns : Reset(c)
  \/ \E c \in Conns : Exec(c)
  \/ \E c \in Conns : Write(c)

Spec == Init /\ [][Next]_vars

(***************************************************************************)
(* The same server with one client at a time and a wider range of          *)
(* requests: what checkDomain decides and what the handler then does on    *)
(* the connection depend on the request only.                              *)
(***************************************************************************)
WideInputs ==
  { <<"a","b",".","g","e">>,                          \* ab.ge
    <<"A","B",".","G","E">>,                          \* AB.GE
    <<"a","b",".","g","o","v",".","g","e">>,          \* ab.gov.ge
    <<"a","b",".","G","O","V",".","g","e">>,          \* ab.GOV.ge
    <<"a","b",".","c","o","m",".","g","e">>,          \* ab.com.ge
    <<"a","b",".","x","x",".","g","e">>,              \* ab.xx.ge
    <<"w","w","w",".","a","b",".","g","e">>,          \* www.ab.ge
    <<"a","b",".","u","s">>,                          \* ab.us
    <<"A","B",".","u","s">>,                          \* AB.us
    <<"a","b",".","c","o","m",".","u","s">>,          \* ab.com.us
    <<"x",".","g","e">>,                              \* x.ge
    <<"x",".","c","o","m",".","g","e">>,              \* x.com.ge
    <<"a","-",".","g","e">>,                          \* a-.ge
    <<"a","-",".","u","s">>,                          \* a-.us
    <<"x",".","u","s">>,                              \* x.us
    <<"x",".","x","x",".","g","e">>,                  \* x.xx.ge
    <<"H","e","l","p">> }                             \* Help

ReadWide(c) == ReadFrom(c, WideInputs)

\* Accept while no handleClient goroutine is running
AcceptAlone == Running = {} /\ Accept

NextValidator ==
  \/ ResolveTCPAddr
  \/ ListenTCP
  \/ AcceptAlone
  \/ AcceptError
  \/ \E c \in Conns : ReadWide(c)
  \/ \E c \in Conns : Reset(c)
  \/ \E c \in Conns : Exec(c)
  \/ \E c \in Conns : Write(c)

SpecValidator == Init /\ [][NextValidator]_vars

(***************************************************************************)
(* Reading a connection's log.                                             *)
(***************************************************************************)
\* the places of the events op of connection c
At(c, op) == {i \in 1..Len(log[c]) : log[c][i].op = op}

\* the place of the first conn.Close() of c (past the end if there is none)
FirstClose(c) ==
  IF At(c, "close") = {}
    THEN Len(log[c]) + 1
    ELSE CHOOSE i \in At(c, "close") : \A j \in At(c, "close") : i <= j

\* the places of the writes of c that sent bytes
Sent(c) == At(c, "write")

\* the bytes the write at place i of c sent
SentBytes(c, i) == Bytes(variant, log[c][i].data)

\* the places where c attempted a write, sent or not
Attempted(c) == At(c, "write") \cup At(c, "write-failed")

\* handleSuccess ran for c
RanSuccess(c) == At(c, "handleSuccess") # {}

\* what checkDomain decided for c (the log has at most the calls made)
Decided(c) == {log[c][i].data[1].name : i \in At(c, "checkDomain")}

\* the decisions of checkDomain that are failures
ErrorOutcomes ==
  {"false", "syntaxErrTemplate", "topErrTemplate", "secondErrTemplate", "lenErrTemplate"}

\* the places of the writes handleSuccess made for c, in order
SuccessWrites(c) ==
  {i \in Sent(c) : \E h \in At(c, "handleSuccess") : h < i}

\* the blocks handleSuccess has to send for c
Expected(c) ==
  LET js == IF variant = "flat" THEN jobsFor(dns[c]) ELSE staticJobs IN
    [k \in 1..Len(js) |-> Render(variant, js[k], req[c], dns[c])]

\* the query of c passed validation
ValidQuery(c) ==
  /\ At(c, "checkDomain") # {}
  /\ Decided(c) \subseteq {"true", "none"}

(***************************************************************************)
(* Claims.                                                                 *)
(***************************************************************************)
\* the number of the write at place i among the writes handleSuccess made for c
NthSuccessWrite(c, i) == Cardinality({j \in SuccessWrites(c) : j <= i})

\* the connections on which handleSuccess ran carry distinct valid queries
DistinctValidQueries ==
  \A c \in Conns, d \in Conns :
    RanSuccess(c) /\ RanSuccess(d) =>
      ValidQuery(c) /\ (c # d => req[c] # req[d])

\* C1: when the handlers that run concurrently carry distinct valid queries,
\* every block handleSuccess writes to a connection is exactly the render of
\* that connection's own query and record: not empty, not another
\* connection's bytes, not a doubled block.
C1_OwnRenderOnly ==
  DistinctValidQueries =>
    \A c \in Conns : \A i \in SuccessWrites(c) :
      SentBytes(c, i) = Expected(c)[NthSuccessWrite(c, i)]

\* the request r has no dot or fails the label grammar
BadSyntax(r) == IndexDot(r) = 0 \/ ~MatchDomain(ToLower(r))

\* C2: every request without a dot, and every request that fails the label
\* grammar, is classified SyntaxError, and classifying it does not abort the
\* handler.
C2_SyntaxErrorIsTotal ==
  \A c \in Conns : \A i \in At(c, "checkDomain") :
    BadSyntax(log[c][i].data[1].req) =>
      /\ log[c][i].data[1].name = "syntaxErrTemplate"
      /\ proc = "up"

\* C3: once the listener is bound the process stays up, whatever happens on
\* the connections.
C3_ServerKeepsRunning == listener = "bound" => proc = "up"

\* C4: a query the validator classifies as a failure gets a non-empty
\* response written before its connection is closed.
C4_FailureIsAnswered ==
  \A c \in Conns :
    (Decided(c) \cap ErrorOutcomes # {} /\ Closed(c)) =>
      \E i \in Sent(c) : i < FirstClose(c) /\ SentBytes(c, i) # <<>>

\* C5: one request per connection: at most one read yields data, nothing is
\* read as a request or validated after a write or a close, and whenever the
\* handler is back at its read after a write the connection is closed.
C5_OneRequestPerConnection ==
  \A c \in Conns :
    /\ Cardinality(At(c, "read-data")) <= 1
    /\ Cardinality(At(c, "checkDomain")) <= 1
    /\ \A i \in Attempted(c) \cup At(c, "close") :
         \A j \in At(c, "read-data") \cup At(c, "checkDomain") : j < i
    /\ (Attempted(c) # {} /\ hpc[c] \in {"read", "done"}) => Closed(c)

\* a connection got a response and its handler has returned
C5_Witness ==
  \E c \in Conns :
    /\ hpc[c] = "done"
    /\ Sent(c) # {}
    /\ Cardinality(At(c, "read-data")) = 1

\* C6: when checkDomain produces an error outcome, handleSuccess is not
\* invoked and exactly the one error response is written.
C6_ErrorSkipsSuccess ==
  \A c \in Conns :
    Decided(c) \cap ErrorOutcomes # {} =>
      /\ ~RanSuccess(c)
      /\ Cardinality(Attempted(c)) <= 1

\* C7: when the first read fails or returns zero bytes the handler writes
\* nothing, calls neither the validator nor the registry, and closes.
C7_FailedReadIsSilent ==
  \A c \in Conns :
    (log[c] # <<>> /\ log[c][1].op \in {"read-err", "read-zero"}) =>
      /\ Len(log[c]) = 2
      /\ log[c][2].op = "close"
      /\ hpc[c] = "done"

\* one handler left after a failed read, another after a read of zero bytes
C7_Witness ==
  \E c \in Conns, d \in Conns :
    /\ log[c] # <<>> /\ log[c][1].op = "read-err" /\ hpc[c] = "done"
    /\ log[d] # <<>> /\ log[d][1].op = "read-zero" /\ hpc[d] = "done"

\* the write at place i of c sent the Help response
IsHelpWrite(c, i) ==
  /\ i \in 1..Len(log[c])
  /\ log[c][i].op \in {"write", "write-failed"}
  /\ log[c][i].data = Static("helpTemplate")

\* C8: the Help response is written exactly for the requests that are, once
\* trimmed, the lowercase literal help; every other request goes to
\* checkDomain as trimmed.
C8_HelpIsExact ==
  \A c \in Conns :
    /\ \A i \in At(c, "read-data") :
         IF TrimSpace(log[c][i].data[1].req) = helpLiteral
           THEN IsHelpWrite(c, i + 1)
           ELSE /\ i + 1 \in At(c, "checkDomain")
                /\ log[c][i + 1].data[1].req = TrimSpace(log[c][i].data[1].req)
    /\ \A i \in 1..Len(log[c]) :
         IsHelpWrite(c, i) =>
           /\ i - 1 \in At(c, "read-data")
           /\ TrimSpace(log[c][i - 1].data[1].req) = helpLiteral

\* one client asked for help with a line end and got it; another sent Help
\* and was handed to checkDomain
C8_Witness ==
  \E c \in Conns, d \in Conns :
    /\ \E i \in At(c, "read-data") :
         log[c][i].data[1].req # helpLiteral /\ IsHelpWrite(c, i + 1)
    /\ \E i \in At(d, "read-data") :
         /\ ToLower(log[d][i].data[1].req) = helpLiteral
         /\ i + 1 \in At(d, "checkDomain")

\* the write at place i of c sent bytes of the No Match template
HasNoMatch(c, i) ==
  \E k \in 1..Len(log[c][i].data) : log[c][i].data[k].name = "No Match"

\* C9: when the registry lookup fails, the handler does not answer No Match.
C9_LookupFailureIsNotNoMatch ==
  \A c \in Conns :
    At(c, "db-failed") # {} => \A i \in Sent(c) : ~HasNoMatch(c, i)

\* the request of c as its client sent it, trimmed
Received(c) ==
  TrimSpace(log[c][CHOOSE i \in At(c, "read-data") : TRUE].data[1].req)

\* C10: a valid, owned query the registry has no record for gets exactly one
\* write, the No Match body echoing the trimmed query, and then the close.
C10_NoMatchOnly ==
  \A c \in Conns :
    (/\ variant = "flat"
     /\ hpc[c] = "done"
     /\ ValidQuery(c)
     /\ Received(c) \notin DataTable) =>
      /\ Cardinality(Attempted(c)) = 1
      /\ \A i \in Sent(c) :
           /\ SentBytes(c, i) = RenderNodes(noMatchContent, [ZeroDNS EXCEPT !.DNS = Received(c)])
           /\ i < FirstClose(c)
      /\ Sent(c) # {}

\* the query of c resolved to a record: a row of table "data" in src/main.go,
\* the built-in record of the older server
Resolved(c) ==
  /\ RanSuccess(c)
  /\ ValidQuery(c)
  /\ variant = "flat" => dns[c].DNS # <<>>

\* the number of the write at place i among the writes of c that sent bytes
NthSent(c, i) == Cardinality({j \in Sent(c) : j <= i})

\* C11: for a query that resolves to a record the handler makes exactly two
\* writes, the primary block first and the extended block second, and closes
\* the connection only after both.
C11_TwoWritesThenClose ==
  \A c \in Conns :
    Resolved(c) =>
      /\ Attempted(c) = Sent(c)
      /\ Cardinality(Sent(c)) <= 2
      /\ \A i \in Sent(c) :
           SentBytes(c, i) =
             Render(variant, staticJobs[NthSent(c, i)], req[c], dns[c])
      /\ \A j \in At(c, "close") : Cardinality({i \in Sent(c) : i < j}) = 2
      /\ hpc[c] = "done" => Cardinality(Sent(c)) = 2

\* C12: a failure of ResolveTCPAddr or ListenTCP ends the process: main is
\* never in its accept loop without a bound listener.
C12_StartupFailureIsFatal ==
  (proc = "up" /\ mainpc = "accept") => listener = "bound"

\* the places of the registry calls made for c
RegistryCalls(c) == At(c, "db") \cup At(c, "db-failed")

\* the places of the registry calls made for c on table t
CallsOn(c, t) == {i \in RegistryCalls(c) : log[c][i].data[1].name = t}

\* C13: over the life of one handler the registry is called at most once,
\* the path where a record is found and its name servers are loaded included.
C13_RegistryAtMostOnce ==
  \A c \in Conns : Cardinality(RegistryCalls(c)) <= 1

\* C13 as amended: at most two registry calls per connection, one lookup of
\* the record and, only after a lookup that found a record, one load of the
\* name servers; none unless handleSuccess ran.
C13_RegistryAtMostTwice ==
  \A c \in Conns :
    /\ Cardinality(CallsOn(c, "data")) <= 1
    /\ Cardinality(CallsOn(c, "nameserver")) <= 1
    /\ RegistryCalls(c) = CallsOn(c, "data") \cup CallsOn(c, "nameserver")
    /\ \A i \in RegistryCalls(c) : \E h \in At(c, "handleSuccess") : h < i
    /\ \A i \in CallsOn(c, "nameserver") :
         /\ i - 1 \in CallsOn(c, "data") \cap At(c, "db")
         /\ log[c][i - 1].data[1].req \in DataTable

\* one handler made both calls and returned, another made the lookup only
C13_Witness ==
  \E c \in Conns, d \in Conns :
    /\ hpc[c] = "done" /\ Cardinality(RegistryCalls(c)) = 2
    /\ hpc[d] = "done" /\ Cardinality(RegistryCalls(d)) = 1

\* the labels of the request r, letter case set aside
Labels(r) == Split(ToLower(r))

\* the request r passes the label grammar
GoodSyntax(r) == MatchDomain(ToLower(r))

\* the last label of r is a top-level domain the server v serves
ServedLast(v, r) ==
  LET last == Labels(r)[Len(Labels(r))] IN
    IF v = "flat"
      THEN \E i \in 1..Len(TLDS) : ToLower(TLDS[i]) = <<".">> \o last
      ELSE last = RootTLD

\* checkDomain decided `outcome` at place i of c and the handler then sent
\* the response `template` to the client
Answered(c, i, outcome, template) ==
  /\ log[c][i].data[1].name = outcome
  /\ i + 1 \in Sent(c)
  /\ log[c][i + 1].data = Static(template)

\* C14: a query of two labels that passes the label grammar and whose last
\* label is not served is classified TopLevelError, and the client receives
\* the top-level error response.
C14_TopLevelError ==
  \A c \in Conns : \A i \in At(c, "checkDomain") :
    LET r == log[c][i].data[1].req IN
      (GoodSyntax(r) /\ Len(Labels(r)) = 2 /\ ~ServedLast(variant, r)) =>
        Answered(c, i, "topErrTemplate", "topErrTemplate")

\* r has three labels, passes the label grammar, and its middle label is no
\* second-level category
BadCategory(r) ==
  GoodSyntax(r) /\ Len(Labels(r)) = 3 /\ Labels(r)[2] \notin Categories

\* C15: under the category scheme, a query of three labels that passes the
\* label grammar and whose middle label is outside the category set is
\* classified SecondLevelError, and the client receives the second-level
\* error response.
C15_SecondLevelError ==
  variant = "categ" =>
    \A c \in Conns : \A i \in At(c, "checkDomain") :
      BadCategory(log[c][i].data[1].req) =>
        Answered(c, i, "secondErrTemplate", "secondErrTemplate")

\* a client of the older server asked for ab.xx.ge and got the second-level
\* error response
C15_Witness ==
  /\ variant = "categ"
  /\ \E c \in Conns : \E i \in At(c, "checkDomain") :
       /\ log[c][i].data[1].req = <<"a","b",".","x","x",".","g","e">>
       /\ BadCategory(log[c][i].data[1].req)
       /\ Answered(c, i, "secondErrTemplate", "secondErrTemplate")

\* r passes the label grammar and the ownership condition of the category
\* scheme, and its leftmost label is shorter than the minimum
ShortOwned(r) ==
  /\ GoodSyntax(r)
  /\ BelongsToUs(Labels(r))
  /\ Len(Labels(r)[1]) < MinLabelLen

\* C16: an owned query that passes the label grammar and whose leftmost
\* label has fewer than 2 characters is classified LengthError and not Valid:
\* the client receives the length error response and the query is not
\* handled as a valid domain.
C16_LengthErrorNotValid ==
  variant = "categ" =>
    \A c \in Conns : \A i \in At(c, "checkDomain") :
      ShortOwned(log[c][i].data[1].req) =>
        /\ Answered(c, i, "lenErrTemplate", "lenErrTemplate")
        /\ ~RanSuccess(c)

\* the requests at places i of c and j of d differ in letter case at most
SameButCase(c, i, d, j) ==
  ToLower(log[c][i].data[1].req) = ToLower(log[d][j].data[1].req)

\* C17: two queries that differ only in the letter case of their characters
\* get the same decision from checkDomain.
C17_CaseInsensitive ==
  \A c \in Conns, d \in Conns :
    \A i \in At(c, "checkDomain"), j \in At(d, "checkDomain") :
      SameButCase(c, i, d, j) =>
        log[c][i].data[1].name = log[d][j].data[1].name

\* two clients sent the same name in different letter case and both names
\* were found to be served
C17_Witness ==
  \E c \in Conns, d \in Conns :
    \E i \in At(c, "checkDomain"), j \in At(d, "checkDomain") :
      /\ SameButCase(c, i, d, j)
      /\ log[c][i].data[1].req # log[d][j].data[1].req
      /\ log[c][i].data[1].name \in {"true", "none"}
      /\ log[d][j].data[1].name \in {"true", "none"}

\* C18: under the flat scheme a query passes the ownership check whenever
\* its last label is in the served list, whatever the number of labels
\* before it.
C18_LastLabelOwned ==
  variant = "flat" =>
    \A c \in Conns : \A i \in At(c, "checkDomain") :
      LET r == log[c][i].data[1].req IN
        (IndexDot(r) # 0 /\ ServedLast("flat", r)) => log[c][i].data[1].name = "true"

\* the part of r from its first dot on is, letter case set aside, an entry
\* of the served list
ListedSuffix(r) ==
  /\ IndexDot(r) # 0
  /\ \E k \in 1..Len(TLDS) :
       ToLower(SubSeq(r, IndexDot(r), Len(r))) = ToLower(TLDS[k])

\* C18 as amended: under the flat scheme a query passes the ownership check
\* exactly when the part from its first dot to its end is, case-insensitively,
\* an entry of the served list.
C18_ListedSuffixOwned ==
  variant = "flat" =>
    \A c \in Conns : \A i \in At(c, "checkDomain") :
      log[c][i].data[1].name = "true" <=> ListedSuffix(log[c][i].data[1].req)

\* one client asked for www.ab.ge and was turned away, another asked for
\* ab.gov.ge and passed
C18_Witness ==
  /\ variant = "flat"
  /\ \E c \in Conns, d \in Conns :
       \E i \in At(c, "checkDomain"), j \in At(d, "checkDomain") :
         /\ log[c][i].data[1].req = <<"w","w","w",".","a","b",".","g","e">>
         /\ log[c][i].data[1].name = "false"
         /\ Len(Labels(log[d][j].data[1].req)) = 3
         /\ log[d][j].data[1].name = "true"

\* the rows of table "nameserver" that belong to the record keyed d
RowsOf(d) == SelectSeq(NameserverTable, LAMBDA n : n.DNSName = d)

\* one "Name Server:" line for each of them, in stored order
OwnNameServerLines(d) ==
  [k \in 1..Len(RowsOf(d)) |-> Chunk("Name Server: ", RowsOf(d)[k].Nameserver)]

\* C19: the extended block of a resolved record is the admin contact, the
\* technical contact, one "Name Server:" line for each name server of the
\* queried domain's record, in stored order and none of another domain, and
\* the DNSSEC line.
C19_OwnNameServersOnly ==
  variant = "flat" =>
    \A c \in Conns :
      (RanSuccess(c) /\ dns[c].DNS # <<>>) =>
        Render(variant, "Success More", req[c], dns[c]) =
          RenderNodes(successMoreContact, dns[c])
            \o OwnNameServerLines(dns[c].DNS)
            \o RenderNodes(successMoreTail, dns[c])

\* the fields of the primary block as the claim lists them
ClaimedPrimaryFields ==
  << "DNS", "RegistryID", "UpdatedDate", "CreationDate", "ExpirationDate",
     "RegistrarName", "RegistrarUrl", "RegistrarContactEmail", "RegistrarContactPhone",
     "RegistrantName", "RegistrantOrganization", "RegistrantStreet", "RegistrantCity",
     "RegistrantProvince", "RegistrantZipCode", "RegistrantCountry", "RegistrantPhone",
     "RegistrantPhoneExt", "RegistrantFax", "RegistrantFaxExt", "RegistrantEmail" >>

\* the same list without the registry id
PrimaryFields ==
  << "DNS", "UpdatedDate", "CreationDate", "ExpirationDate",
     "RegistrarName", "RegistrarUrl", "RegistrarContactEmail", "RegistrarContactPhone",
     "RegistrantName", "RegistrantOrganization", "RegistrantStreet", "RegistrantCity",
     "RegistrantProvince", "RegistrantZipCode", "RegistrantCountry", "RegistrantPhone",
     "RegistrantPhoneExt", "RegistrantFax", "RegistrantFaxExt", "RegistrantEmail" >>

\* the texts that introduce them on the wire
PrimaryLabels ==
  << "Domain Name: ", "Updated Date: ", "Creation Date: ", "Expiration Date: ",
     "Registrar: ", "Registrar URL: ", "Registrar Abuse Contact Email: ",
     "Registrar Abuse Contact Phone: ", "Registrant Name: ",
     "Registrant Organization: ", "Registrant Street: ", "Registrant City: ",
     "Registrant State/Province: ", "Registrant Postal Code: ",
     "Registrant Country: ", "Registrant Phone: ", "Registrant Phone Ext: ",
     "Registrant Fax: ", "Registrant Fax Ext: ", "Registrant Email: " >>

\* the values a block shows after the banner, in order
ValuesAfterBanner(block) ==
  [k \in 1..(Len(block) - Len(bannerNodes)) |-> block[k + Len(bannerNodes)].value]

\* the primary block handleSuccess renders for c
PrimaryBlock(c) == Render(variant, "Success", req[c], dns[c])

\* handleSuccess of src/main.go found a record for c
FoundRecord(c) == variant = "flat" /\ RanSuccess(c) /\ dns[c].DNS # <<>>

\* C20: the primary block of a resolved record shows domain name, registry
\* id, the three dates, the four registrar fields and the twelve registrant
\* fields, in that order, none missing and none out of place.
C20_PrimaryFieldOrder ==
  \A c \in Conns :
    FoundRecord(c) =>
      ValuesAfterBanner(PrimaryBlock(c)) =
        [k \in 1..Len(ClaimedPrimaryFields) |-> FieldValue(dns[c], ClaimedPrimaryFields[k])]

\* C20 as amended: the same order without a registry id, which the block
\* does not show; each field under its label.
C20_PrimaryFieldOrderNoId ==
  \A c \in Conns :
    FoundRecord(c) =>
      /\ ValuesAfterBanner(PrimaryBlock(c)) =
           [k \in 1..Len(PrimaryFields) |-> FieldValue(dns[c], PrimaryFields[k])]
      /\ \A k \in 2..Len(PrimaryLabels) :
           PrimaryBlock(c)[k + Len(bannerNodes)].label = PrimaryLabels[k]

\* a client asked for a registered name and was sent its primary block
C20_Witness ==
  \E c \in Conns :
    /\ FoundRecord(c)
    /\ hpc[c] = "done"
    /\ \E i \in Sent(c) : SentBytes(c, i) = PrimaryBlock(c)

\* the connections a step hands to a new handleClient goroutine
Started == {c \in Conns : hpc[c] = "idle" /\ hpc'[c] # "idle"}

\* C21: a failed Accept leaves the process up, main in its loop and the
\* listener and the handlers as they were, so that the next connection can
\* still be accepted; a step starts at most one handler, at its read, on a
\* connection that had none, and no connection is handed out again.
C21_AcceptLoopGoesOn ==
  /\ [](( /\ acceptErr /\ proc = "up" /\ listener = "bound"
          /\ Pending /\ Cardinality(Running) < 2 ) => ENABLED Accept)
  /\ [][ /\ (acceptErr' /\ ~acceptErr) =>
              /\ proc' = "up" /\ mainpc' = "accept"
              /\ listener' = listener /\ hpc' = hpc
         /\ Cardinality(Started) <= 1
         /\ \A c \in Started :
              /\ hpc'[c] = "read" /\ log'[c] = <<>>
              /\ proc' = "up" /\ mainpc' = "accept" /\ ~acceptErr'
         /\ \A c \in Conns : hpc[c] # "idle" => hpc'[c] # "idle" ]_vars

\* Accept has just failed while one connection is being handled and another
\* is still to come, and the next Accept can succeed
C21_Witness ==
  /\ acceptErr /\ proc = "up" /\ listener = "bound"
  /\ Pending
  /\ Cardinality(Running) = 1
  /\ ENABLED Accept

\* the error an unowned request r gets, by its number of labels
UnownedError(r) ==
  IF Len(Labels(r)) = 2 THEN "topErrTemplate" ELSE "secondErrTemplate"

\* C22: checkDomain checks the syntax, then the ownership, then the length,
\* and the first check that fails decides: a request that fails the label
\* grammar gets the syntax error whatever its suffix, an unowned one that
\* passes the grammar gets the top-level or second-level error whatever the
\* length of its leftmost label, and the length error is kept for owned ones.
C22_FirstFailingCheckDecides ==
  variant = "categ" =>
    \A c \in Conns : \A i \in At(c, "checkDomain") :
      LET r == log[c][i].data[1].req IN
        /\ ~GoodSyntax(r) =>
             Answered(c, i, "syntaxErrTemplate", "syntaxErrTemplate")
        /\ (GoodSyntax(r) /\ ~BelongsToUs(Labels(r))) =>
             Answered(c, i, UnownedError(r), UnownedError(r))
        /\ log[c][i].data[1].name = "lenErrTemplate" =>
             GoodSyntax(r) /\ BelongsToUs(Labels(r))

\* one client asked for x.us and got the top-level error, another asked for
\* x.xx.ge and got the second-level error
C22_Witness ==
  /\ variant = "categ"
  /\ \E c \in Conns, d \in Conns :
       \E i \in At(c, "checkDomain"), j \in At(d, "checkDomain") :
         /\ log[c][i].data[1].req = <<"x",".","u","s">>
         /\ Answered(c, i, "topErrTemplate", "topErrTemplate")
         /\ log[d][j].data[1].req = <<"x",".","x","x",".","g","e">>
         /\ Answered(d, j, "secondErrTemplate", "secondErrTemplate")

\* c was accepted, its handler has returned and conn.Close() was called
Finished(c) == hpc[c] = "done" /\ Closed(c)

\* C23: every accepted connection is closed and its handler returns: when
\* nothing more can happen (every read has returned, every lookup and write
\* was made), no accepted connection is left with a handler that has not
\* closed it and left its loop.
C23_EveryHandlerReturns ==
  (~ENABLED Next) => \A c \in Conns : hpc[c] # "idle" => Finished(c)

\* C24: the handler attempts no write on a connection it has closed: every
\* conn.Write of a connection comes before its first conn.Close.
C24_NoWriteAfterClose ==
  \A c \in Conns : \A i \in Attempted(c) : i < FirstClose(c)

====
